---- MODULE Spec2Model ----
(***************************************************************************)
(* A model of airtable.js: the Record entity (lib/record.js), the Table    *)
(* gateway (lib/table.js) and the client configuration (lib/airtable.js).  *)
(* The action dispatcher (base.runAction) and the remote service are not   *)
(* part of the three source files; they are modelled from the              *)
(* specification and drive the callbacks the source files hand to them.    *)
(***************************************************************************)
EXTENDS Naturals, FiniteSets, Sequences, TLC

(***************************************************************************)
(* Data domains                                                            *)
(***************************************************************************)

\* Field (column) names of the table.
FieldNames == {"a", "b"}

\* Cell values; Absent stands for a key that is not in the mapping.
Values == {"x", "y"}
Absent == "absent"

\* A JavaScript object used as a field mapping: every name is either bound
\* to a value or absent.
FieldMaps == [FieldNames -> Values \cup {Absent}]

\* The empty object {}.
EmptyFields == [n \in FieldNames |-> Absent]

\* Record ids known to the remote service; NoId is null/undefined.
RecIds == {"rec1", "rec2"}
NoId == "noid"

\* Errors the dispatcher can hand to a callback; NoErr is a null error.
Errors == {"NOT_FOUND", "SERVER_ERROR"}
NoErr == "noerr"

\* The table's url-encoded name or id (Table._urlEncodedNameOrId).
TableName == "tbl"

\* A parsed JSON body of a single-record response: null/undefined when
\* present is FALSE, otherwise {id, fields?}.
NullJson == [present |-> FALSE, id |-> NoId, hasFields |-> FALSE, fields |-> EmptyFields]
RecordJson(id, fields) == [present |-> TRUE, id |-> id, hasFields |-> TRUE, fields |-> fields]
JsonWithoutFields(id) == [present |-> TRUE, id |-> id, hasFields |-> FALSE, fields |-> EmptyFields]

\* The optional-parameter bags a caller passes: {} or {typecast: true}.
NoOpts == [typecast |-> FALSE]
OptsInputs == {NoOpts, [typecast |-> TRUE]}

\* The field mappings a caller passes as changes / record data.
ChangeInputs ==
    { EmptyFields,
      [n \in FieldNames |-> IF n = "b" THEN "y" ELSE Absent],
      [n \in FieldNames |-> IF n = "a" THEN "y" ELSE Absent] }

VARIABLES
    rec,      \* the Record object the caller holds: [id, fields, rawJson]
    call,     \* the action handed to base.runAction and not yet answered
    args,     \* what the caller passed to the operation awaited: [id, changes, opts]
    resp,     \* the last dispatcher callback: the operation answered, [err, body]
    result,   \* the arguments of the last `done` callback: [err, value]
    server,   \* the remote table: RecIds -> field mapping, or Missing
    airtable, \* the process-wide settings Airtable.configure wrote (Airtable.*)
    ctor,     \* what the client was constructed from: [opts, statics]
    client,   \* the Airtable client: the settings Airtable.init resolved
    disp,     \* the dispatcher's logical action: attempts, elapsed time, outcome
    pages,    \* the remote table as the list endpoint pages it: Seq of Seq of ids
    cb,       \* what the caller's per-record callback returns: "undefined" or "false"
    pg,       \* the list operation or traversal in progress and its event log
    sel,      \* the last table.select(params): [params, threw, message, query]
    conc      \* Record objects operated on concurrently: slot -> [rec, call, resp, result]

recVars == <<rec, call, args, resp, result, server>>
dispVars == <<airtable, ctor, client, disp>>
tableVars == <<pages, cb, pg, sel>>
concVars == <<conc>>

\* A record the remote table does not hold (never created, or deleted).
Missing == [exists |-> FALSE, fields |-> EmptyFields]
Stored(fields) == [exists |-> TRUE, fields |-> fields]

(***************************************************************************)
(* lib/record.js                                                           *)
(***************************************************************************)

\* Record.setRawJson with the previous fields merged under the response's.
setRawJsonMerging(r, rawJson) ==
    [r EXCEPT !.rawJson = rawJson,
              !.fields = [n \in FieldNames |->
                            IF rawJson.present /\ rawJson.hasFields
                               /\ rawJson.fields[n] # Absent
                            THEN rawJson.fields[n] ELSE r.fields[n]]]

\* Record.setRawJson adopting the id of the raw JSON as well.
setRawJsonTakingId(r, rawJson) ==
    [r EXCEPT !.rawJson = rawJson,
              !.id = IF rawJson.present THEN rawJson.id ELSE @,
              !.fields = IF rawJson.present /\ rawJson.hasFields
                         THEN rawJson.fields ELSE EmptyFields]

\* Record.setRawJson: this._rawJson = rawJson;
\* this.fields = (rawJson && rawJson.fields) || {}.
setRawJson(r, rawJson) ==
    [r EXCEPT !.rawJson = rawJson,
              !.fields = IF rawJson.present /\ rawJson.hasFields
                         THEN rawJson.fields ELSE EmptyFields]

\* Record.init: this.id = recordId || recordJson.id; this.setRawJson(recordJson).
\* (recordJson.id of an undefined recordJson throws: callers pass an id or a JSON.)
init(recordId, recordJson) ==
    setRawJson([id |-> IF recordId # NoId THEN recordId ELSE recordJson.id,
                fields |-> EmptyFields,
                rawJson |-> NullJson],
               recordJson)

\* Record.get: this.fields[columnName] (undefined when the key is absent).
get(r, columnName) == r.fields[columnName]

\* Record.set: this.fields[columnName] = columnValue.  this.fields is the very
\* object `rawJson.fields` when the raw JSON carried one, so that is written too.
set(r, columnName, columnValue) ==
    [r EXCEPT !.fields[columnName] = columnValue,
              !.rawJson.fields[columnName] =
                  IF r.rawJson.present /\ r.rawJson.hasFields
                  THEN columnValue ELSE @]

\* lodash assign({fields: cellValuesByName}, opts): the request body of a write.
updateBody(cellValuesByName, opts) ==
    [present |-> TRUE, fields |-> cellValuesByName, typecast |-> opts.typecast]

NullBody == [present |-> FALSE, fields |-> EmptyFields, typecast |-> FALSE]

\* The path '/' + table + '/' + id of a record, '/' + table + '/' of the table.
RecordPath(id) == [table |-> TableName, id |-> id]
TablePath == [table |-> TableName, id |-> NoId]

\* The query parameters {} the Record operations and create pass.
EmptyQuery == {}

NoCall ==
    [active |-> FALSE, op |-> "none", via |-> "none", method |-> "none",
     path |-> TablePath, query |-> EmptyQuery, body |-> NullBody, shared |-> "no",
     sent |-> NullBody, writes |-> 0]

\* base.runAction(method, path, {}, body, callback) as issued by Record or
\* Table operation op (via "record" on the caller's Record, via "table" through
\* the Table gateway).  `body` is the object handed over, as it reads now;
\* `shared` tells whether body.fields is the very object the Record holds as
\* this.fields ("yes"), was it until the Record got another ("was"), or never
\* was ("no"); `sent` is the body as the dispatcher last put it on the wire;
\* `writes` counts the caller's set and setRawJson calls since the action was
\* issued.
runAction(op, via, method, path, body) ==
    [active |-> TRUE, op |-> op, via |-> via, method |-> method, path |-> path,
     query |-> EmptyQuery, body |-> body, shared |-> "no", sent |-> body,
     writes |-> 0]

NoArgs == [id |-> NoId, changes |-> EmptyFields, opts |-> NoOpts]
NoResp == [op |-> "none", via |-> "none", err |-> NoErr, body |-> NullJson]
NoResult == [called |-> FALSE, err |-> NoErr, value |-> "none"]

\* done(err) and done(null, that).
doneErr(err) == [called |-> TRUE, err |-> err, value |-> "none"]
doneRecord == [called |-> TRUE, err |-> NoErr, value |-> "record"]


\* Record.fetch: runAction('get', '/' + table + '/' + this.id, {}, null, cb).
fetch(r, via) == runAction("fetch", via, "get", RecordPath(r.id), NullBody)

\* Record.patchUpdate issued with the whole local snapshot merged into the body.
patchUpdateSendingSnapshot(r, cellValuesByName, opts, via) ==
    runAction("patchUpdate", via, "patch", RecordPath(r.id),
              updateBody([n \in FieldNames |->
                            IF cellValuesByName[n] # Absent
                            THEN cellValuesByName[n] ELSE r.fields[n]], opts))

\* Record.patchUpdate: runAction('patch', path, {}, assign({fields}, opts), cb).
patchUpdate(r, cellValuesByName, opts, via) ==
    runAction("patchUpdate", via, "patch", RecordPath(r.id),
              updateBody(cellValuesByName, opts))

\* Record.putUpdate issued as a PATCH.
putUpdateAsPatch(r, cellValuesByName, opts, via) ==
    runAction("putUpdate", via, "patch", RecordPath(r.id),
              updateBody(cellValuesByName, opts))

\* Record.putUpdate: runAction('put', path, {}, assign({fields}, opts), cb).
putUpdate(r, cellValuesByName, opts, via) ==
    runAction("putUpdate", via, "put", RecordPath(r.id),
              updateBody(cellValuesByName, opts))

\* Record.save: this.putUpdate(this.fields, done); the body's fields are the
\* Record's own fields object.
save(r) == [putUpdate(r, r.fields, NoOpts, "record") EXCEPT !.shared = "yes"]

\* Record.set as the awaited action c sees it: this.fields[columnName] =
\* columnValue writes into the body of a save not yet answered.
setShared(c, columnName, columnValue) ==
    IF c.active /\ c.shared = "yes"
    THEN [c EXCEPT !.body.fields[columnName] = columnValue]
    ELSE c

\* Record.setRawJson as the awaited action c sees it.  this.fields becomes the
\* object the JSON holds as its fields: the one the Record already has
\* ("own": the body goes on as before), the one in the body of c ("body": the
\* body's fields are the Record's from now on), or another one ("other", also
\* the new {} of a JSON without fields: the body keeps the old object).
setRawJsonShared(c, object) ==
    CASE object = "own" -> c
      [] object = "body" -> [c EXCEPT !.shared = "yes"]
      [] OTHER -> [c EXCEPT !.shared = IF @ = "yes" THEN "was" ELSE @]

\* The awaited action as the service receives it.
Wire(c) == [c EXCEPT !.body = c.sent]

\* Record.destroy: runAction('delete', path, {}, null, cb).
destroy(r, via) == runAction("destroy", via, "delete", RecordPath(r.id), NullBody)

\* The callback of fetch, patchUpdate and putUpdate with the error path
\* refreshing the snapshot as well.
refreshCallbackOnError(r, err, results) ==
    IF err # NoErr
    THEN [rec |-> setRawJson(r, results), result |-> doneErr(err)]
    ELSE [rec |-> setRawJson(r, results), result |-> doneRecord]

\* The callback of fetch, patchUpdate and putUpdate:
\* if (err) { done(err); return; }  that.setRawJson(results);  done(null, that).
refreshCallback(r, err, results) ==
    IF err # NoErr
    THEN [rec |-> r, result |-> doneErr(err)]
    ELSE [rec |-> setRawJson(r, results), result |-> doneRecord]

\* The callback of destroy reporting success whatever the dispatcher said.
destroyCallbackSwallowingError(r, err, results) ==
    [rec |-> r, result |-> doneRecord]

\* The callback of destroy refreshing the snapshot from the response.
destroyCallbackRefreshing(r, err, results) ==
    IF err # NoErr
    THEN [rec |-> r, result |-> doneErr(err)]
    ELSE [rec |-> setRawJson(r, results), result |-> doneRecord]

\* The callback of destroy: if (err) { done(err); return; }  done(null, that).
destroyCallback(r, err, results) ==
    IF err # NoErr
    THEN [rec |-> r, result |-> doneErr(err)]
    ELSE [rec |-> r, result |-> doneRecord]

(***************************************************************************)
(* lib/table.js                                                            *)
(***************************************************************************)

\* Table._findRecordById: record = new Record(this, recordId); record.fetch(done).
_findRecordById(recordId) ==
    LET record == init(recordId, NullJson)
    IN  [rec |-> record, call |-> fetch(record, "table")]

\* Table._updateRecord: record = new Record(this, recordId);
\* record.patchUpdate(recordData, [opts,] done).
_updateRecord(recordId, recordData, opts) ==
    LET record == init(recordId, NullJson)
    IN  [rec |-> record, call |-> patchUpdate(record, recordData, opts, "table")]

\* Table._replaceRecord: record = new Record(this, recordId);
\* record.putUpdate(recordData, [opts,] done).
_replaceRecord(recordId, recordData, opts) ==
    LET record == init(recordId, NullJson)
    IN  [rec |-> record, call |-> putUpdate(record, recordData, opts, "table")]

\* Table._destroyRecord: record = new Record(this, recordId); record.destroy(done).
_destroyRecord(recordId) ==
    LET record == init(recordId, NullJson)
    IN  [rec |-> record, call |-> destroy(record, "table")]

\* Table._createRecord posting the record data without the options.
_createRecordDroppingOptions(recordData, optionalParameters) ==
    runAction("create", "table", "post", TablePath, updateBody(recordData, NoOpts))

\* Table._createRecord: requestData = assign({fields: recordData}, optionalParameters);
\* runAction('post', '/' + table + '/', {}, requestData, cb).
_createRecord(recordData, optionalParameters) ==
    runAction("create", "table", "post", TablePath,
              updateBody(recordData, optionalParameters))

\* The callback of _createRecord handing over the record next to the error.
createCallbackReportingBoth(r, err, body) ==
    IF err # NoErr
    THEN [rec |-> r, result |-> [called |-> TRUE, err |-> err, value |-> "record"]]
    ELSE [rec |-> init(body.id, body), result |-> doneRecord]

\* The callback of _createRecord:
\* if (err) { done(err); return; }  record = new Record(that, body.id, body);
\* done(null, record).
createCallback(r, err, body) ==
    IF err # NoErr
    THEN [rec |-> r, result |-> doneErr(err)]
    ELSE [rec |-> init(body.id, body), result |-> doneRecord]

\* The callback the pending call registered with runAction.
Callback(c, r, err, body) ==
    CASE c.op = "create" -> createCallback(r, err, body)
      [] c.op = "destroy" -> destroyCallback(r, err, body)
      [] OTHER -> refreshCallback(r, err, body)


(***************************************************************************)
(* lib/airtable.js                                                         *)
(***************************************************************************)

\* JavaScript's undefined, and the truthiness of a setting: the booleans are
\* written "true" and "false", every other string is a non-empty string value.
Undefined == "undefined"
Truthy(v) == v \notin {Undefined, "false", ""}

\* a || b.
JsOr(a, b) == IF Truthy(a) THEN a ELSE b

\* a || b for numbers: 0 (like an unset option) is falsy.
JsOrNum(a, b) == IF a # 0 THEN a ELSE b

\* process.env as far as the client reads it.
ProcessEnv == [AIRTABLE_ENDPOINT_URL |-> Undefined, AIRTABLE_API_KEY |-> "keyEnv"]

\* requestTimeout: 300 * 1000 (5 minutes).
DefaultRequestTimeout == 300 * 1000

\* Airtable.default_config with retries switched off by default.
default_configNoRetry ==
    [endpointUrl |-> JsOr(ProcessEnv.AIRTABLE_ENDPOINT_URL, "https://api.airtable.com"),
     apiVersion |-> "0.1.0",
     apiKey |-> ProcessEnv.AIRTABLE_API_KEY,
     allowUnauthorizedSsl |-> "false",
     noRetryIfRateLimited |-> "true",
     requestTimeout |-> DefaultRequestTimeout]

\* Airtable.default_config().
default_config ==
    [endpointUrl |-> JsOr(ProcessEnv.AIRTABLE_ENDPOINT_URL, "https://api.airtable.com"),
     apiVersion |-> "0.1.0",
     apiKey |-> ProcessEnv.AIRTABLE_API_KEY,
     allowUnauthorizedSsl |-> "false",
     noRetryIfRateLimited |-> "false",
     requestTimeout |-> DefaultRequestTimeout]

\* The statics Airtable.apiKey, ... before Airtable.configure is ever called.
Unconfigured ==
    [apiKey |-> Undefined, endpointUrl |-> Undefined, apiVersion |-> Undefined,
     allowUnauthorizedSsl |-> Undefined, noRetryIfRateLimited |-> Undefined]

\* Airtable.configure(opts): each static is overwritten with opts' value.
configure(opts) ==
    [apiKey |-> opts.apiKey, endpointUrl |-> opts.endpointUrl,
     apiVersion |-> opts.apiVersion,
     allowUnauthorizedSsl |-> opts.allowUnauthorizedSsl,
     noRetryIfRateLimited |-> opts.noRetryIfRateLimited]

\* apiVersion.split('.')[0] for the versions in use.
MajorOf(apiVersion) == IF apiVersion = "0.1.0" THEN "0" ELSE "1"

\* Airtable.init never reading opts.noRetryIfRateLimited.
Airtable_initWithoutNoRetryOption(opts, statics) ==
    LET version == JsOr(opts.apiVersion, JsOr(statics.apiVersion, default_config.apiVersion))
    IN  [apiKey |-> JsOr(opts.apiKey, JsOr(statics.apiKey, default_config.apiKey)),
         endpointUrl |->
             JsOr(opts.endpointUrl, JsOr(statics.endpointUrl, default_config.endpointUrl)),
         apiVersion |-> version,
         apiVersionMajor |-> MajorOf(version),
         allowUnauthorizedSsl |->
             JsOr(opts.allowUnauthorizedSsl,
                  JsOr(statics.allowUnauthorizedSsl, default_config.allowUnauthorizedSsl)),
         noRetryIfRateLimited |->
             JsOr(statics.noRetryIfRateLimited, default_config.noRetryIfRateLimited),
         requestTimeout |-> JsOrNum(opts.requestTimeout, default_config.requestTimeout)]

\* Airtable.init never reading opts.requestTimeout.
Airtable_initWithoutTimeoutOption(opts, statics) ==
    LET version == JsOr(opts.apiVersion, JsOr(statics.apiVersion, default_config.apiVersion))
    IN  [apiKey |-> JsOr(opts.apiKey, JsOr(statics.apiKey, default_config.apiKey)),
         endpointUrl |->
             JsOr(opts.endpointUrl, JsOr(statics.endpointUrl, default_config.endpointUrl)),
         apiVersion |-> version,
         apiVersionMajor |-> MajorOf(version),
         allowUnauthorizedSsl |->
             JsOr(opts.allowUnauthorizedSsl,
                  JsOr(statics.allowUnauthorizedSsl, default_config.allowUnauthorizedSsl)),
         noRetryIfRateLimited |->
             JsOr(opts.noRetryIfRateLimited,
                  JsOr(statics.noRetryIfRateLimited, default_config.noRetryIfRateLimited)),
         requestTimeout |-> default_config.requestTimeout]

\* Airtable.init(opts): this._x = opts.x || Airtable.x || default_config.x for
\* every setting but the timeout, which is opts.requestTimeout || default.
Airtable_init(opts, statics) ==
    LET version == JsOr(opts.apiVersion, JsOr(statics.apiVersion, default_config.apiVersion))
    IN  [apiKey |-> JsOr(opts.apiKey, JsOr(statics.apiKey, default_config.apiKey)),
         endpointUrl |->
             JsOr(opts.endpointUrl, JsOr(statics.endpointUrl, default_config.endpointUrl)),
         apiVersion |-> version,
         apiVersionMajor |-> MajorOf(version),
         allowUnauthorizedSsl |->
             JsOr(opts.allowUnauthorizedSsl,
                  JsOr(statics.allowUnauthorizedSsl, default_config.allowUnauthorizedSsl)),
         noRetryIfRateLimited |->
             JsOr(opts.noRetryIfRateLimited,
                  JsOr(statics.noRetryIfRateLimited, default_config.noRetryIfRateLimited)),
         requestTimeout |-> JsOrNum(opts.requestTimeout, default_config.requestTimeout)]

\* new Airtable() with no options: opts = opts || {}.
NoClientOpts ==
    [apiKey |-> Undefined, endpointUrl |-> Undefined, apiVersion |-> Undefined,
     allowUnauthorizedSsl |-> Undefined, noRetryIfRateLimited |-> Undefined,
     requestTimeout |-> 0]

(***************************************************************************)
(* The action dispatcher, base.runAction (modelled from the specification: *)
(* sections 4.1 and 5).  Time is counted in the unit of requestTimeout.    *)
(***************************************************************************)

\* The most dispatch attempts of one logical action the model follows.
MaxAttempts == 4

\* The longest short duration of an attempt or of a backoff wait.
MaxTick == 2

\* A short request timeout a client may be constructed with.
ShortTimeout == 3

\* How long one attempt, or one backoff wait, may take.
Durations == (1..MaxTick) \cup {DefaultRequestTimeout \div 3}

\* The options clients are constructed with, and the process-wide settings.
ClientOptsInputs ==
    {[NoClientOpts EXCEPT !.noRetryIfRateLimited = n, !.requestTimeout = t] :
        n \in {Undefined, "false", "true"}, t \in {0, ShortTimeout}}
ConfigureInputs ==
    {[Unconfigured EXCEPT !.noRetryIfRateLimited = n] : n \in {Undefined, "false", "true"}}

\* The logical actions handed to the dispatcher.
ActionInputs ==
    { fetch(init("rec1", NullJson), "record"),
      patchUpdate(init("rec1", NullJson),
                  [n \in FieldNames |-> IF n = "b" THEN "y" ELSE Absent],
                  NoOpts, "record") }

\* The bodies of 200 responses.
OkBodies == {RecordJson("rec1", f) : f \in ChangeInputs \ {EmptyFields}}

\* The errors the dispatcher builds.
RateLimitError == "RATE_LIMITED"
TimeoutError == "TIMEOUT"

Idle ==
    [phase |-> "idle", desc |-> NoCall, sent |-> <<>>, received |-> <<>>,
     elapsed |-> 0, wait |-> 0, expired |-> FALSE, callbacks |-> <<>>]

\* What the transport hands back: a status code and the parsed body.
Response(status, body) == [status |-> status, body |-> body]

\* The request put on the wire for a descriptor: the descriptor itself, its
\* body as it reads at that moment.
RequestOf(desc) == [method |-> desc.method, path |-> desc.path,
                    query |-> desc.query, body |-> desc.body]

\* After the backoff wait the same descriptor is issued again; its body is the
\* object the caller handed over, as it reads by then.
Reissue(dsp) ==
    [dsp EXCEPT !.phase = "sent",
                !.elapsed = @ + dsp.wait,
                !.wait = 0,
                !.sent = Append(@, RequestOf(dsp.desc))]

\* The dispatcher ends the action: the callback is called with (err, body).
Finish(dsp, err, body) ==
    [dsp EXCEPT !.phase = "done",
                !.callbacks = Append(@, [err |-> err, body |-> body])]

\* A 429: surfaced at once when managed retry is off; otherwise the action
\* waits `backoff` and retries if that fits into the request timeout, and
\* ends with a rate-limit error if it does not.
OnRateLimited(dsp, cl, backoff) ==
    IF Truthy(cl.noRetryIfRateLimited)
    THEN Finish(dsp, RateLimitError, NullJson)
    ELSE IF dsp.elapsed + backoff < cl.requestTimeout
         THEN [dsp EXCEPT !.phase = "backoff", !.wait = backoff]
         ELSE Finish([dsp EXCEPT !.expired = TRUE], RateLimitError, NullJson)

(***************************************************************************)
(* The remote service behind base.runAction (modelled from the             *)
(* specification: sections 4.1, 4.2 and 6)                                 *)
(***************************************************************************)

\* Whether the service can answer the action with a 2xx: the record addressed
\* exists, or (POST) an id is still free.
ServerAccepts(store, c) ==
    IF c.method = "post"
    THEN \E i \in RecIds : ~store[i].exists
    ELSE store[c.path.id].exists

\* The id a POST assigns.
NewId(store) == CHOOSE i \in RecIds : ~store[i].exists

\* PATCH semantics: fields named in the body are written, the others kept.
ServerMerge(old, changes) ==
    [n \in FieldNames |-> IF changes[n] # Absent THEN changes[n] ELSE old[n]]

\* The remote table after the action is applied.
ServerApply(store, c) ==
    CASE c.method = "patch" ->
            [store EXCEPT ![c.path.id] = Stored(ServerMerge(@.fields, c.body.fields))]
      [] c.method = "put" -> [store EXCEPT ![c.path.id] = Stored(c.body.fields)]
      [] c.method = "delete" -> [store EXCEPT ![c.path.id] = Missing]
      [] c.method = "post" -> [store EXCEPT ![NewId(store)] = Stored(c.body.fields)]
      [] OTHER -> store

\* The record the service answers with: {id, fields} of the stored record
\* ({deleted, id} for a DELETE).
ServerReply(store, c) ==
    LET id == IF c.method = "post" THEN NewId(store) ELSE c.path.id
        after == ServerApply(store, c)
    IN  IF c.method = "delete"
        THEN JsonWithoutFields(id)
        ELSE RecordJson(id, after[id].fields)

\* The 2xx bodies the callback may be handed: the service's record, the same
\* under another id, a body without a `fields` key, or (not for a POST, whose
\* callback reads body.id) no body at all.
ReplyBodies(store, c) ==
    LET full == ServerReply(store, c)
    IN  {full, JsonWithoutFields(full.id)}
        \cup {[full EXCEPT !.id = i] : i \in RecIds}
        \cup (IF c.method = "post" THEN {} ELSE {NullJson})

\* Whether the body is the service's own record for the action.
IsServerRecord(store, c, body) == body = ServerReply(store, c)

(***************************************************************************)
(* Actions: the caller's operations and the dispatcher's callbacks         *)
(***************************************************************************)

\* How many times the caller writes to the Record while one action is awaited
\* (by the caller, or by the dispatcher between its attempts).
MaxWrites == 2

\* The JSON of the caller's own that is handed to record.setRawJson: one of
\* another record, with fields.
RawJsonInputs ==
    {RecordJson("rec2", [n \in FieldNames |-> IF n = "a" THEN "y" ELSE Absent])}

\* The caller hands action c to the dispatcher: no other call is awaited, the
\* caller's own arguments are remembered and the previous callback arguments
\* are forgotten.
Issued(c, id, changes, opts) ==
    /\ ~call.active
    /\ call' = c
    /\ args' = [id |-> id, changes |-> changes, opts |-> opts]
    /\ resp' = NoResp
    /\ result' = NoResult

\* record.set(columnName, columnValue): synchronous, at any time; the caller
\* writes either value to "a" and one value to "b".  The write shows in the
\* body of an action that holds the Record's fields object, as the caller
\* awaits it (call) and as the dispatcher holds it between attempts (disp).
Set ==
    \E n \in FieldNames, v \in Values :
        /\ <<n, v>> \in {<<"a", "x">>, <<"a", "y">>, <<"b", "y">>}
        /\ call.active => call.writes < MaxWrites
        /\ disp.phase \in {"sent", "backoff"} => disp.desc.writes < MaxWrites
        /\ rec' = set(rec, n, v)
        /\ call' = [setShared(call, n, v) EXCEPT !.writes = IF call.active THEN @ + 1 ELSE @]
        /\ disp' = [disp EXCEPT !.desc = IF disp.phase \in {"sent", "backoff"}
                                         THEN [setShared(@, n, v) EXCEPT !.writes = @ + 1]
                                         ELSE @]
        /\ UNCHANGED <<args, resp, result, server, airtable, ctor, client,
                       tableVars, concVars>>

\* record.setRawJson(rawJson), called by the holder of the Record: synchronous,
\* at any time.  The JSON is one of the caller's own, one whose fields are the
\* Record's fields object, the Record's own _rawJson, or one whose fields are
\* the object in the body of the awaited action.
SetRawJson ==
    /\ call.active => call.writes < MaxWrites
    /\ disp.phase \in {"sent", "backoff"} => disp.desc.writes < MaxWrites
    /\ \E c \in {[call EXCEPT !.writes = IF call.active THEN @ + 1 ELSE @]} :
        LET held(object) ==
                [disp EXCEPT !.desc = IF disp.phase \in {"sent", "backoff"}
                                      THEN [setRawJsonShared(@, object)
                                              EXCEPT !.writes = @ + 1]
                                      ELSE @]
            kept == IF rec.rawJson.present /\ rec.rawJson.hasFields
                    THEN "own" ELSE "other"
        IN  \/ \E json \in RawJsonInputs :
                  /\ rec' = setRawJson(rec, json)
                  /\ call' = setRawJsonShared(c, "other")
                  /\ disp' = held("other")
            \/ /\ rec' = setRawJson(rec, RecordJson("rec2", rec.fields))
               /\ call' = setRawJsonShared(c, "own")
               /\ disp' = held("own")
            \/ /\ rec' = setRawJson(rec, rec.rawJson)
               /\ call' = setRawJsonShared(c, kept)
               /\ disp' = held(kept)
            \/ /\ call.active /\ call.body.present /\ call.shared # "yes"
               /\ rec' = setRawJson(rec, RecordJson("rec2", call.body.fields))
               /\ call' = setRawJsonShared(c, "body")
               /\ disp' = held("other")
    /\ UNCHANGED <<args, resp, result, server, airtable, ctor, client,
                   tableVars, concVars>>

Fetch ==
    /\ Issued(fetch(rec, "record"), rec.id, EmptyFields, NoOpts)
    /\ UNCHANGED <<rec, server, dispVars, tableVars, concVars>>

\* record.patchUpdate(cellValuesByName, opts, done) with an object of the
\* caller's, or with the Record's own fields object (record.fields), which the
\* body then holds.
PatchUpdate ==
    \E o \in OptsInputs :
        /\ \/ \E ch \in ChangeInputs :
                 Issued(patchUpdate(rec, ch, o, "record"), rec.id, ch, o)
           \/ Issued([patchUpdate(rec, rec.fields, o, "record") EXCEPT !.shared = "yes"],
                     rec.id, rec.fields, o)
        /\ UNCHANGED <<rec, server, dispVars, tableVars, concVars>>

\* record.putUpdate(cellValuesByName, opts, done), likewise.
PutUpdate ==
    \E o \in OptsInputs :
        /\ \/ \E ch \in ChangeInputs :
                 Issued(putUpdate(rec, ch, o, "record"), rec.id, ch, o)
           \/ Issued([putUpdate(rec, rec.fields, o, "record") EXCEPT !.shared = "yes"],
                     rec.id, rec.fields, o)
        /\ UNCHANGED <<rec, server, dispVars, tableVars, concVars>>

Save ==
    /\ Issued(save(rec), rec.id, rec.fields, NoOpts)
    /\ UNCHANGED <<rec, server, dispVars, tableVars, concVars>>

Destroy ==
    /\ Issued(destroy(rec, "record"), rec.id, EmptyFields, NoOpts)
    /\ UNCHANGED <<rec, server, dispVars, tableVars, concVars>>

\* table.find(recordId): the caller now holds the Record the gateway built.
TableFind ==
    \E i \in RecIds :
        /\ Issued(_findRecordById(i).call, i, EmptyFields, NoOpts)
        /\ rec' = _findRecordById(i).rec
        /\ UNCHANGED <<server, dispVars, tableVars, concVars>>

TableUpdate ==
    \E i \in RecIds, ch \in ChangeInputs, o \in OptsInputs :
        /\ Issued(_updateRecord(i, ch, o).call, i, ch, o)
        /\ rec' = _updateRecord(i, ch, o).rec
        /\ UNCHANGED <<server, dispVars, tableVars, concVars>>

TableReplace ==
    \E i \in RecIds, ch \in ChangeInputs, o \in OptsInputs :
        /\ Issued(_replaceRecord(i, ch, o).call, i, ch, o)
        /\ rec' = _replaceRecord(i, ch, o).rec
        /\ UNCHANGED <<server, dispVars, tableVars, concVars>>

TableDestroy ==
    \E i \in RecIds :
        /\ Issued(_destroyRecord(i).call, i, EmptyFields, NoOpts)
        /\ rec' = _destroyRecord(i).rec
        /\ UNCHANGED <<server, dispVars, tableVars, concVars>>

\* table.create(recordData, opts, done) with an object of the caller's, or
\* with the fields object of the Record the caller holds.
TableCreate ==
    \E o \in OptsInputs :
        /\ \/ \E ch \in ChangeInputs : Issued(_createRecord(ch, o), NoId, ch, o)
           \/ Issued([_createRecord(rec.fields, o) EXCEPT !.shared = "yes"],
                     NoId, rec.fields, o)
        /\ UNCHANGED <<rec, server, dispVars, tableVars, concVars>>

\* The dispatcher puts the awaited action on the wire again (a retry), with
\* the body as it reads by then: it differs when record.set wrote into the
\* body of a save since.
Transmit ==
    /\ call.active
    /\ call.sent # call.body
    /\ call' = [call EXCEPT !.sent = call.body]
    /\ UNCHANGED <<rec, args, resp, result, server, dispVars, tableVars, concVars>>

\* The dispatcher calls back with an error; the remote table is unchanged.
RespondError ==
    /\ call.active
    /\ \E e \in Errors :
        LET out == Callback(call, rec, e, NullJson)
        IN  /\ (e = "NOT_FOUND") => ~ServerAccepts(server, call)
            /\ resp' = [op |-> call.op, via |-> call.via, err |-> e, body |-> NullJson]
            /\ rec' = out.rec
            /\ result' = out.result
    /\ call' = NoCall
    /\ args' = NoArgs
    /\ UNCHANGED <<server, dispVars, tableVars, concVars>>

\* The service applies the action and the dispatcher calls back with a body.
RespondSuccess ==
    /\ call.active
    /\ ServerAccepts(server, Wire(call))
    /\ \E body \in ReplyBodies(server, Wire(call)) :
        LET out == Callback(call, rec, NoErr, body)
        IN  /\ resp' = [op |-> call.op, via |-> call.via, err |-> NoErr, body |-> body]
            /\ rec' = out.rec
            /\ result' = out.result
    /\ server' = ServerApply(server, Wire(call))
    /\ call' = NoCall
    /\ args' = NoArgs
    /\ UNCHANGED <<dispVars, tableVars, concVars>>

(***************************************************************************)
(* Actions: configuration, client construction and the dispatcher          *)
(***************************************************************************)

Quiet == disp.phase \in {"idle", "done"}

\* Airtable.configure(opts).
Configure ==
    /\ Quiet
    /\ \E g \in ConfigureInputs : airtable' = configure(g)
    /\ UNCHANGED <<ctor, client, disp, recVars, tableVars, concVars>>

\* new Airtable(opts); the assert on the API key holds (the environment
\* supplies one).
NewClient ==
    /\ Quiet
    /\ \E o \in ClientOptsInputs :
        /\ Truthy(Airtable_init(o, airtable).apiKey)
        /\ client' = Airtable_init(o, airtable)
        /\ ctor' = [opts |-> o, statics |-> airtable]
    /\ disp' = Idle
    /\ UNCHANGED <<airtable, recVars, tableVars, concVars>>

\* base.runAction(method, path, query, body, callback): the first attempt, of
\* an action with a body of its own or of the save of the caller's Record.
StartAction ==
    /\ Quiet
    /\ \E a \in ActionInputs \cup {save(rec)} :
        disp' = [Idle EXCEPT !.phase = "sent", !.desc = a,
                             !.sent = <<RequestOf(a)>>]
    /\ UNCHANGED <<airtable, ctor, client, recVars, tableVars, concVars>>

\* The attempt is answered in time.
Answered(t) ==
    /\ disp.phase = "sent"
    /\ disp.elapsed + t <= client.requestTimeout

\* A 2xx with a parseable body: the action succeeds with it.
Respond200 ==
    /\ \E t \in Durations, body \in OkBodies :
        /\ Answered(t)
        /\ disp' = Finish([disp EXCEPT !.elapsed = @ + t,
                                       !.received = Append(@, Response(200, body))],
                          NoErr, body)
    /\ UNCHANGED <<airtable, ctor, client, recVars, tableVars, concVars>>

\* A 429: retried after a backoff, or surfaced.
Respond429 ==
    /\ Len(disp.sent) < MaxAttempts \/ Truthy(client.noRetryIfRateLimited)
    /\ \E t \in Durations, backoff \in Durations :
        /\ Answered(t)
        /\ disp' = OnRateLimited([disp EXCEPT !.elapsed = @ + t,
                                              !.received = Append(@, Response(429, NullJson))],
                                 client, backoff)
    /\ UNCHANGED <<airtable, ctor, client, recVars, tableVars, concVars>>

\* Any other non-2xx: surfaced at once, never retried.
RespondFailure ==
    /\ \E t \in Durations :
        /\ Answered(t)
        /\ disp' = Finish([disp EXCEPT !.elapsed = @ + t,
                                       !.received = Append(@, Response(500, NullJson))],
                          "SERVER_ERROR", NullJson)
    /\ UNCHANGED <<airtable, ctor, client, recVars, tableVars, concVars>>

\* No answer before the request timeout runs out: the action fails.
TimeOut ==
    /\ disp.phase = "sent"
    /\ disp' = Finish([disp EXCEPT !.elapsed = client.requestTimeout,
                                   !.expired = TRUE],
                      TimeoutError, NullJson)
    /\ UNCHANGED <<airtable, ctor, client, recVars, tableVars, concVars>>

\* The backoff wait is over: the action is issued again.
Retry ==
    /\ disp.phase = "backoff"
    /\ disp' = Reissue(disp)
    /\ UNCHANGED <<airtable, ctor, client, recVars, tableVars, concVars>>

DispatchStep == Respond200 \/ Respond429 \/ RespondFailure \/ TimeOut \/ Retry

InitDispatch ==
    /\ airtable = Unconfigured
    /\ ctor = [opts |-> NoClientOpts, statics |-> Unconfigured]
    /\ client = Airtable_init(NoClientOpts, Unconfigured)
    /\ disp = Idle

NextDispatch ==
    \/ Configure
    \/ NewClient
    \/ StartAction
    \/ Respond200
    \/ Respond429
    \/ RespondFailure
    \/ TimeOut
    \/ Retry

\* The dispatcher under a caller who writes to the Record whose save it holds.
NextRetry ==
    \/ NewClient
    \/ Set
    \/ StartAction
    \/ Respond200
    \/ Respond429
    \/ RespondFailure
    \/ TimeOut
    \/ Retry

InitRecord ==
    /\ rec = init("rec1", NullJson)
    /\ call = NoCall
    /\ args = NoArgs
    /\ resp = NoResp
    /\ result = NoResult
    /\ server = [i \in RecIds |->
                    IF i = "rec1"
                    THEN Stored([n \in FieldNames |-> IF n = "a" THEN "x" ELSE Absent])
                    ELSE Missing]

NextRecord ==
    \/ Set
    \/ SetRawJson
    \/ Fetch
    \/ PatchUpdate
    \/ PutUpdate
    \/ Save
    \/ Destroy
    \/ TableFind
    \/ TableUpdate
    \/ TableReplace
    \/ TableDestroy
    \/ TableCreate
    \/ Transmit
    \/ RespondError
    \/ RespondSuccess

(***************************************************************************)
(* table.js: list and forEach                                              *)
(***************************************************************************)

\* Bounds of the remote table as the list endpoint pages it.
MaxPages == 3
MaxPageSize == 2

\* Ids of the records of the remote table, in the server's order.
ItemNames == <<"recA", "recB", "recC", "recD", "recE", "recF", "recG",
               "recH", "recI", "recJ", "recK", "recL", "recM", "recN",
               "recO", "recP", "recQ", "recR", "recS", "recT">>

RECURSIVE SumOf(_, _)
SumOf(sizes, k) == IF k = 0 THEN 0 ELSE sizes[k] + SumOf(sizes, k - 1)

\* The table cut into pages of the given sizes.
PagesOf(sizes) ==
    [k \in 1..Len(sizes) |->
        [i \in 1..sizes[k] |-> ItemNames[SumOf(sizes, k - 1) + i]]]

Datasets ==
    { PagesOf(sizes) : sizes \in UNION { [1..n -> 0..MaxPageSize] : n \in 1..MaxPages } }

\* The offset token of a page is its index; no token is null / undefined.
NoOffset == 0

\* The list endpoint: the page the offset names (the first without one) and
\* the token of the page after it, absent on the last page.
ListReply(table, query) ==
    LET k == IF query.offset = NoOffset THEN 1 ELSE query.offset
    IN  [records |-> [i \in 1..Len(table[k]) |-> RecordJson(table[k][i],
                                   [n \in FieldNames |-> IF n = "a" THEN "x" ELSE Absent])],
         offset  |-> IF k < Len(table) THEN k + 1 ELSE NoOffset]
NoListReply == [records |-> <<>>, offset |-> NoOffset]

\* The extra options of a list call (opts): here the view to list.
NoListOpts == [view |-> Undefined]
ListOptsInputs == {NoListOpts, [view |-> "grid"]}

\* Table.__recordsPerPageForIteration || 100
RecordsPerPageForIteration == 100

\* What the per-record callback returns on every call.
CallbackKinds == {"undefined", "false"}

\* One entry of the log of what the traversal did, in order.
Ev(kind, offset, id, err) == [kind |-> kind, offset |-> offset, id |-> id, err |-> err]
RequestEv(query) == Ev("request", query.offset, NoId, NoErr)
ResponseEv(err, offset) == Ev("response", offset, NoId, err)
RecordEv(record) == Ev("record", NoOffset, record.id, NoErr)
DoneEv(err) == Ev("done", NoOffset, NoId, err)

\* assign({limit: limit, offset: offset}, opts)
listRecordsParameters(limit, offset, opts) ==
    [limit |-> limit, offset |-> offset, view |-> opts.view]

\* table._listRecords(limit, offset, opts, done): the action it hands to
\* base.runAction.
_listRecords(limit, offset, opts) ==
    [method |-> "get", path |-> TablePath,
     query |-> listRecordsParameters(limit, offset, opts), body |-> NullBody]

NoListResult == [called |-> 0, err |-> NoErr, records |-> <<>>, offset |-> NoOffset]

listCallbackReversing(err, results) ==
    IF err # NoErr
    THEN [err |-> err, records |-> <<>>, offset |-> NoOffset]
    ELSE [err |-> NoErr,
          records |-> [i \in 1..Len(results.records) |->
                          init(NoId, results.records[Len(results.records) + 1 - i])],
          offset |-> results.offset]

\* The callback _listRecords gives to runAction: the arguments it calls
\* `done` with, (err) or (null, records, results.offset).
listCallback(err, results) ==
    IF err # NoErr
    THEN [err |-> err, records |-> <<>>, offset |-> NoOffset]
    ELSE [err |-> NoErr,
          records |-> [i \in 1..Len(results.records) |-> init(NoId, results.records[i])],
          offset |-> results.offset]

\* lodash forEach(page, callback): the records the callback is invoked
\* with; iteration ends early once the callback returns false.
forEach(page, returns) ==
    IF returns = "false" /\ Len(page) > 0 THEN <<page[1]>> ELSE page

RecordEvs(page) == [i \in 1..Len(page) |-> RecordEv(page[i])]

\* The state of no list call and no traversal.
PagerIdle ==
    [mode |-> "idle", inflight |-> <<>>, limit |-> RecordsPerPageForIteration,
     offset |-> NoOffset, opts |-> NoListOpts, events |-> <<>>, out |-> NoListResult]

\* nextPage(): one more list request, for the page the closure's offset names.
nextPage(st) ==
    LET action == _listRecords(st.limit, st.offset, st.opts)
    IN  [st EXCEPT !.inflight = Append(@, action),
                   !.events = Append(@, RequestEv(action.query))]

nextPageCallbackRequestingFirst(st, err, page, newOffset, returns) ==
    IF err # NoErr
    THEN [st EXCEPT !.events = Append(@, DoneEv(err))]
    ELSE IF newOffset # NoOffset
         THEN LET requested == nextPage([st EXCEPT !.offset = newOffset])
              IN  [requested EXCEPT !.events = @ \o RecordEvs(forEach(page, returns))]
         ELSE [st EXCEPT !.events = Append(@ \o RecordEvs(forEach(page, returns)),
                                           DoneEv(NoErr))]

nextPageCallbackStoppingEarly(st, err, page, newOffset, returns) ==
    IF err # NoErr
    THEN [st EXCEPT !.events = Append(@, DoneEv(err))]
    ELSE [st EXCEPT !.events = Append(@ \o RecordEvs(forEach(page, returns)),
                                      DoneEv(NoErr))]

nextPageCallbackIgnoringError(st, err, page, newOffset, returns) ==
    IF err # NoErr
    THEN nextPage([st EXCEPT !.events = Append(@, DoneEv(err))])
    ELSE LET delivered == [st EXCEPT !.events = @ \o RecordEvs(forEach(page, returns))]
         IN  IF newOffset # NoOffset
             THEN nextPage([delivered EXCEPT !.offset = newOffset])
             ELSE [delivered EXCEPT !.events = Append(@, DoneEv(NoErr))]

nextPageCallbackKeepingOffset(st, err, page, newOffset, returns) ==
    IF err # NoErr
    THEN [st EXCEPT !.events = Append(@, DoneEv(err))]
    ELSE LET delivered == [st EXCEPT !.events = @ \o RecordEvs(forEach(page, returns))]
         IN  IF newOffset # NoOffset
             THEN nextPage(delivered)
             ELSE [delivered EXCEPT !.events = Append(@, DoneEv(NoErr))]

\* The callback nextPage gives to _listRecords, applied to the traversal st
\* (the closure's offset, the requests awaited, the log): an error ends the
\* traversal with done(err); otherwise the page goes through forEach and
\* then either the offset is kept and the next page requested, or done().
nextPageCallback(st, err, page, newOffset, returns) ==
    IF err # NoErr
    THEN [st EXCEPT !.events = Append(@, DoneEv(err))]
    ELSE LET delivered == [st EXCEPT !.events = @ \o RecordEvs(forEach(page, returns))]
         IN  IF newOffset # NoOffset
             THEN nextPage([delivered EXCEPT !.offset = newOffset])
             ELSE [delivered EXCEPT !.events = Append(@, DoneEv(NoErr))]

\* table._forEachRecord(opts, callback, done): limit and offset of the
\* closure, then the first nextPage().
_forEachRecord(opts) ==
    nextPage([PagerIdle EXCEPT !.mode = "forEach",
                               !.limit = RecordsPerPageForIteration,
                               !.offset = NoOffset,
                               !.opts = opts])

\* table.list(limit, offset, opts, done), a single _listRecords call.
list(limit, offset, opts) ==
    nextPage([PagerIdle EXCEPT !.mode = "list", !.limit = limit,
                               !.offset = offset, !.opts = opts])

\* The sequence s without its j-th element.
Without(s, j) == [i \in 1..(Len(s) - 1) |-> IF i < j THEN s[i] ELSE s[i + 1]]

\* The dispatcher's callback for the awaited list request j: _listRecords'
\* callback and, through `done`, the caller's or the traversal's.
ListAnswered(st, j, err, results, returns) ==
    LET got == listCallback(err, results)
        st1 == [st EXCEPT !.inflight = Without(@, j),
                          !.events = Append(@, ResponseEv(err, results.offset))]
    IN  IF st.mode = "forEach"
        THEN nextPageCallback(st1, got.err, got.records, got.offset, returns)
        ELSE [st1 EXCEPT !.out = [called |-> @.called + 1, err |-> got.err,
                                  records |-> got.records, offset |-> got.offset],
                         !.events = Append(@, DoneEv(got.err))]

(***************************************************************************)
(* table.js: select                                                        *)
(***************************************************************************)

\* The keys of a select parameter object: two the listing endpoint knows and
\* one it does not.  A key is absent (Undefined), well-formed or malformed.
ParamKeys == {"view", "maxRecords", "foo"}
RecognizedKeys == {"view", "maxRecords"}
NoParams == [plain |-> TRUE, keys |-> [k \in ParamKeys |-> Undefined]]
SelectInputs ==
    { [plain |-> TRUE, keys |-> ks] : ks \in [ParamKeys -> {Undefined, "ok", "bad"}] }
        \cup {[plain |-> FALSE, keys |-> NoParams.keys]}

Given(params) == {k \in ParamKeys : params.keys[k] # Undefined}

\* Query.validateParams(params): the three lists _selectRecords reads.  The
\* well-formed recognized parameters are valid and the malformed ones are
\* errors; a key that is no listing parameter is filed under ignoredKeys or
\* under errors, and `ignored` is the set of those filed under ignoredKeys.
validateParams(params, ignored) ==
    [validParams |-> {k \in Given(params) : k \in RecognizedKeys /\ params.keys[k] = "ok"},
     ignoredKeys |-> ignored,
     errors      |-> {k \in Given(params) :
                        \/ k \in RecognizedKeys /\ params.keys[k] = "bad"
                        \/ k \notin RecognizedKeys /\ k \notin ignored}]

NoQuery == [made |-> FALSE, params |-> {}]
NoSelect == [called |-> FALSE, params |-> NoParams, threw |-> FALSE,
             named |-> {}, warned |-> {}, query |-> NoQuery]

\* table._selectRecords(params): either the assert throws, its message
\* naming the parameters in error, or the ignored keys are warned about and a
\* Query over the valid parameters is returned.
_selectRecords(params, ignored) ==
    IF params.plain
    THEN LET validationResults == validateParams(params, ignored)
         IN  IF validationResults.errors # {}
             THEN [called |-> TRUE, params |-> params, threw |-> TRUE,
                   named |-> validationResults.errors, warned |-> {},
                   query |-> NoQuery]
             ELSE [called |-> TRUE, params |-> params, threw |-> FALSE, named |-> {},
                   warned |-> validationResults.ignoredKeys,
                   query |-> [made |-> TRUE, params |-> validationResults.validParams]]
    ELSE [called |-> TRUE, params |-> params, threw |-> TRUE, named |-> {},
          warned |-> {}, query |-> NoQuery]

(***************************************************************************)
(* Actions: select, list and forEach                                       *)
(***************************************************************************)

\* No list request is awaited: nothing was started, or what was started ended.
PagerQuiet == pg.inflight = <<>>

\* table.select(params): synchronous.  Which of the keys that are no listing
\* parameter the validation ignores is its own choice.
Select ==
    /\ \E p \in SelectInputs :
        \E ignored \in SUBSET (Given(p) \ RecognizedKeys) :
            sel' = _selectRecords(p, ignored)
    /\ UNCHANGED <<pages, cb, pg, recVars, dispVars, concVars>>

\* table.list(limit, offset, opts, done), with no offset or one the server
\* gave earlier.
TableList ==
    /\ PagerQuiet
    /\ \E l \in {MaxPageSize, RecordsPerPageForIteration},
          o \in {NoOffset} \cup 2..Len(pages), opts \in ListOptsInputs :
        pg' = list(l, o, opts)
    /\ UNCHANGED <<pages, cb, sel, recVars, dispVars, concVars>>

\* table.forEach(opts, callback, done).
TableForEach ==
    /\ PagerQuiet
    /\ \E opts \in ListOptsInputs : pg' = _forEachRecord(opts)
    /\ UNCHANGED <<pages, cb, sel, recVars, dispVars, concVars>>

\* The dispatcher answers an awaited list request with the server's page.
RespondPage ==
    /\ \E j \in 1..Len(pg.inflight) :
        pg' = ListAnswered(pg, j, NoErr, ListReply(pages, pg.inflight[j].query), cb)
    /\ UNCHANGED <<pages, cb, sel, recVars, dispVars, concVars>>

\* The dispatcher answers an awaited list request with an error.
FailPage ==
    /\ \E j \in 1..Len(pg.inflight), e \in Errors :
        pg' = ListAnswered(pg, j, e, NoListReply, cb)
    /\ UNCHANGED <<pages, cb, sel, recVars, dispVars, concVars>>

AnswerPage == RespondPage \/ FailPage

InitTable ==
    /\ pages = PagesOf(<<1>>)
    /\ cb = "undefined"
    /\ pg = PagerIdle
    /\ sel = NoSelect

InitTableAny ==
    /\ pages \in Datasets
    /\ cb \in CallbackKinds
    /\ pg = PagerIdle
    /\ sel = NoSelect

NextTable ==
    \/ TableList
    \/ TableForEach
    \/ RespondPage
    \/ FailPage

NextSelect ==
    \/ Select
    \/ TableList
    \/ TableForEach
    \/ RespondPage
    \/ FailPage

(***************************************************************************)
(* Operations awaited at the same time                                     *)
(***************************************************************************)

\* Two Record objects the caller holds, each with the operation it awaits.
Slots == {"first", "second"}

\* The changes and the response bodies used when operations overlap.
ConcChanges == [n \in FieldNames |-> IF n = "b" THEN "y" ELSE Absent]
ConcBodies(c) ==
    {RecordJson(c.path.id, f) :
        f \in {[n \in FieldNames |-> IF n = "a" THEN "x" ELSE Absent],
               [n \in FieldNames |-> "y"]}}
        \cup {JsonWithoutFields(c.path.id)}

ConcIdle(id) ==
    [rec |-> init(id, NullJson), call |-> NoCall, resp |-> NoResp, result |-> NoResult,
     during |-> FALSE]

thatShared(i) == "first"

\* var that = this: the Record the callback of the operation of slot i
\* writes to and hands to `done`.
that(i) == i

\* The operations of a Record object.
RecordOpInputs(r) ==
    { fetch(r, "record"),
      patchUpdate(r, ConcChanges, NoOpts, "record"),
      putUpdate(r, ConcChanges, NoOpts, "record"),
      destroy(r, "record") }

\* The operations of the Table gateway, each on a Record of its own.
TableOpInputs ==
    UNION { { _findRecordById(id),
              _updateRecord(id, ConcChanges, NoOpts),
              _replaceRecord(id, ConcChanges, NoOpts),
              _destroyRecord(id) } : id \in RecIds }

\* An operation of the Record of slot i, which awaits none.
ConcRecordOp ==
    /\ \E i \in Slots :
        /\ ~conc[i].call.active
        /\ \E c \in RecordOpInputs(conc[i].rec) :
            conc' = [conc EXCEPT ![i].call = c, ![i].resp = NoResp,
                                 ![i].result = NoResult, ![i].during = FALSE]
    /\ UNCHANGED <<recVars, dispVars, tableVars>>

\* An operation of the Table gateway; the caller's slot i then holds the
\* Record the gateway built.
ConcTableOp ==
    /\ \E i \in Slots :
        /\ ~conc[i].call.active
        /\ \E t \in TableOpInputs :
            conc' = [conc EXCEPT ![i] = [rec |-> t.rec, call |-> t.call,
                                         resp |-> NoResp, result |-> NoResult,
                                         during |-> FALSE]]
    /\ UNCHANGED <<recVars, dispVars, tableVars>>

\* The dispatcher's callback for the operation of slot i, run on the Record
\* its closure holds; `during` tells whether another operation was awaited.
ConcAnswered(i, err, body) ==
    LET c == conc[i].call
        out == Callback(c, conc[that(i)].rec, err, body)
        answered == [conc EXCEPT ![i].call = NoCall,
                                 ![i].resp = [op |-> c.op, via |-> c.via,
                                              err |-> err, body |-> body],
                                 ![i].result = out.result,
                                 ![i].during = \E j \in Slots \ {i} : conc[j].call.active]
    IN  [answered EXCEPT ![that(i)].rec = out.rec]

\* The awaited operations are answered in any order.
ConcRespondError ==
    /\ \E i \in Slots, e \in Errors :
        /\ conc[i].call.active
        /\ conc' = ConcAnswered(i, e, NullJson)
    /\ UNCHANGED <<recVars, dispVars, tableVars>>

ConcRespondSuccess ==
    /\ \E i \in Slots :
        /\ conc[i].call.active
        /\ \E body \in ConcBodies(conc[i].call) : conc' = ConcAnswered(i, NoErr, body)
    /\ UNCHANGED <<recVars, dispVars, tableVars>>

InitConc == conc = [i \in Slots |-> ConcIdle("rec1")]

InitConcAny == conc \in [Slots -> {ConcIdle(id) : id \in RecIds}]

NextConc ==
    \/ ConcRecordOp
    \/ ConcTableOp
    \/ ConcRespondError
    \/ ConcRespondSuccess


vars == <<rec, call, args, resp, result, server, airtable, ctor, client, disp,
          pages, cb, pg, sel, conc>>

\* The Record entity and the Table gateway over an answering dispatcher.
Init == InitRecord /\ InitDispatch /\ InitTable /\ InitConc

Next == NextRecord

Spec == Init /\ [][Next]_vars

\* The client configuration and the dispatcher's rate-limit retries.
DispatchSpec == Init /\ [][NextDispatch]_vars

\* The dispatcher's retries of an action whose body the caller writes into
\* between the attempts.
RetrySpec == Init /\ [][NextRetry]_vars

\* The same, with every attempt answered or timed out and every backoff wait
\* ending: the transport's timeout and the retry timer see to both.
DispatchFair == DispatchSpec /\ WF_vars(DispatchStep)

\* list and forEach over any paged table and any callback.
TableInit == InitRecord /\ InitDispatch /\ InitTableAny /\ InitConc
TableSpec == TableInit /\ [][NextTable]_vars

\* The same, with every list request answered.
TableFair == TableSpec /\ WF_vars(AnswerPage)

\* select, next to list and forEach over a table of one page.
SelectSpec == Init /\ [][NextSelect]_vars

\* Two Record objects whose operations overlap and are answered in any order.
ConcInit == InitRecord /\ InitDispatch /\ InitTable /\ InitConcAny
ConcSpec == ConcInit /\ [][NextConc]_vars

\* The operations that take a completion callback, on a table of two pages.
NextCompletion ==
    \/ Fetch
    \/ PatchUpdate
    \/ PutUpdate
    \/ Destroy
    \/ TableCreate
    \/ RespondError
    \/ RespondSuccess
    \/ TableList
    \/ TableForEach
    \/ RespondPage
    \/ FailPage

CompletionInit ==
    /\ InitRecord
    /\ InitDispatch
    /\ InitConc
    /\ pages = PagesOf(<<1, 1>>)
    /\ cb = "undefined"
    /\ pg = PagerIdle
    /\ sel = NoSelect

CompletionSpec == CompletionInit /\ [][NextCompletion]_vars


(***************************************************************************)
(* Properties of the Record entity and the Table gateway                   *)
(***************************************************************************)

\* The operations that refresh the snapshot from the response.
RefreshOps == {"fetch", "patchUpdate", "putUpdate"}
RecordOps == RefreshOps \cup {"destroy"}

\* The step in which the dispatcher answers the awaited call.
Completed == call.active /\ ~call'.active
ErrorStep == Completed /\ resp'.err # NoErr
SuccessStep == Completed /\ resp'.err = NoErr

\* The step in which an operation hands its action to the dispatcher.
IssueStep == ~call.active /\ call'.active

\* The step in which a new Record object is constructed: by the gateway when a
\* Table operation is issued, or by the callback of a successful create.
NewRecordStep ==
    \/ ~call.active /\ call'.active /\ call'.via = "table" /\ call'.op # "create"
    \/ SuccessStep /\ call.op = "create"

\* The fields a response body gives a snapshot: its `fields`, or {} without one.
FieldsOf(body) == IF body.present /\ body.hasFields THEN body.fields ELSE EmptyFields

\* The step of one record.set(columnName, columnValue): no call is issued or
\* answered.
SetStep ==
    /\ call'.active = call.active
    /\ call'.sent = call.sent
    /\ rec'.id = rec.id
    /\ \E n \in FieldNames, v \in Values : rec'.fields = [rec.fields EXCEPT ![n] = v]

\* The step of one record.setRawJson(rawJson) by the holder of the Record.
SetRawJsonStep ==
    /\ call'.active = call.active
    /\ call'.sent = call.sent
    /\ rec'.id = rec.id
    /\ rec'.fields = FieldsOf(rec'.rawJson)

\* C1: when the dispatcher reports an error to fetch, patchUpdate, putUpdate or
\* destroy, the record's id and fields are left as they were and the caller is
\* handed exactly that error and no record.
C1_ErrorLeavesRecordUntouched ==
    [][(ErrorStep /\ call.op \in RecordOps)
         => /\ rec'.id = rec.id
            /\ rec'.fields = rec.fields
            /\ result' = [called |-> TRUE, err |-> resp'.err, value |-> "none"]]_vars

\* A failed patchUpdate on a record that holds fields: they are still there.
C1_Witness ==
    /\ ~call.active
    /\ resp.op = "patchUpdate"
    /\ resp.err = "SERVER_ERROR"
    /\ result.called /\ result.err = "SERVER_ERROR"
    /\ rec.rawJson.present
    /\ rec.fields # EmptyFields

\* C2 as stated: fields and id change only when a successful response arrives
\* (or a new Record object is constructed).
C2_OnlyWrittenOnSuccess ==
    [][(rec'.fields # rec.fields \/ rec'.id # rec.id)
         => (SuccessStep \/ NewRecordStep)]_vars

\* C2 amended: outside construction, the id is never written, and fields are
\* written only by set (one named field, at once, with no remote call), by
\* setRawJson called by the holder of the Record (the fields of the JSON
\* given, with no remote call) and by the callback of a successful fetch,
\* patchUpdate or putUpdate; save, destroy and every failed call write
\* nothing.
C2_WrittenBySetOrOnSuccess ==
    [][(rec'.fields # rec.fields \/ rec'.id # rec.id)
         => \/ NewRecordStep
            \/ SuccessStep /\ call.op \in RefreshOps /\ rec'.id = rec.id
            \/ SetStep
            \/ SetRawJsonStep]_vars

\* A record that never received a response and yet holds a field: set wrote it.
C2_Witness ==
    /\ ~rec.rawJson.present
    /\ rec.fields # EmptyFields

\* C3: after a successful fetch, patchUpdate or putUpdate the fields are
\* exactly the response's fields mapping, {} when it carries none.
C3_FieldsReplacedWholesale ==
    [][(SuccessStep /\ call.op \in RefreshOps)
         => rec'.fields = FieldsOf(resp'.body)]_vars

\* A successful fetch whose response lacks a field the server never had.
C3_Witness ==
    /\ ~call.active
    /\ resp.op = "fetch" /\ resp.via = "record"
    /\ resp.err = NoErr
    /\ resp.body.hasFields
    /\ resp.body.fields["b"] = Absent
    /\ rec.fields = resp.body.fields

\* C4: the id of a Record object never changes after construction.
C4_IdImmutable ==
    [][~NewRecordStep => rec'.id = rec.id]_vars

\* A successful fetch answered under another id: the record keeps its own.
C4_Witness ==
    /\ ~call.active
    /\ resp.op = "fetch"
    /\ resp.err = NoErr
    /\ resp.body.present
    /\ resp.body.id # rec.id
    /\ rec.rawJson.id = resp.body.id


\* The request body the operation must send: {fields: changes} merged with the
\* options the caller passed.
BodyOfArgs == [present |-> TRUE, fields |-> args.changes, typecast |-> args.opts.typecast]

\* A successful patchUpdate / putUpdate answered with the service's own record.
PatchAnswered ==
    SuccessStep /\ call.op = "patchUpdate" /\ IsServerRecord(server, Wire(call), resp'.body)
PutAnswered ==
    SuccessStep /\ call.op = "putUpdate" /\ IsServerRecord(server, Wire(call), resp'.body)

\* C5 as stated: after a successful patchUpdate(changes), a field named in
\* changes has the given value and every other field is as in the snapshot the
\* record had before.
C5_PatchKeepsLocalSnapshot ==
    [][PatchAnswered
         => \A n \in FieldNames :
               rec'.fields[n] = IF args.changes[n] # Absent
                                THEN args.changes[n] ELSE rec.fields[n]]_vars

\* C5 amended: patchUpdate(changes) sends {fields: changes} merged with the
\* options, and after a successful patchUpdate a field named in changes has
\* the given value and every other field has the value the service stored for
\* the record before the call, whatever the local snapshot held.  An object
\* of changes that the Record holds as its fields reads as it did when the
\* request was last put on the wire.
C5_PatchKeepsServerFields ==
    /\ [][(IssueStep /\ call'.op = "patchUpdate")
            => (call'.body = updateBody(args'.changes, args'.opts)
                  /\ call'.sent = call'.body)]_vars
    /\ [](call.active /\ call.op = "patchUpdate" /\ call.shared = "no"
            => call.sent = BodyOfArgs)
    /\ [][PatchAnswered
            => \A n \in FieldNames :
                  rec'.fields[n] = IF call.sent.fields[n] # Absent
                                   THEN call.sent.fields[n]
                                   ELSE server[args.id].fields[n]]_vars

\* Table.update(id, {b: y}) on a stored record {a: x}: the transient Record
\* started from {} and now holds {a: x, b: y}.
C5_Witness ==
    /\ ~call.active
    /\ resp.op = "patchUpdate" /\ resp.via = "table"
    /\ resp.err = NoErr
    /\ rec.fields = resp.body.fields
    /\ rec.fields["a"] = "x" /\ rec.fields["b"] = "y"

C7_CreateBuildsRecordFromResponse ==
    /\ [](call.active /\ call.op = "create"
            => /\ call.method = "post"
               /\ call.path = TablePath
               /\ call.sent.typecast = args.opts.typecast
               /\ call.shared = "no" => (call.body = BodyOfArgs /\ call.sent = BodyOfArgs)
               /\ call.shared = "yes" => call.body.fields = rec.fields)
    /\ [][(IssueStep /\ call'.op = "create")
            => (call'.body = updateBody(args'.changes, args'.opts)
                  /\ call'.sent = call'.body)]_vars
    /\ [][(Completed /\ call.op = "create")
            => IF resp'.err = NoErr
               THEN /\ rec'.id = resp'.body.id
                    /\ rec'.fields = FieldsOf(resp'.body)
                    /\ result' = [called |-> TRUE, err |-> NoErr, value |-> "record"]
               ELSE /\ rec' = rec
                    /\ result' = [called |-> TRUE, err |-> resp'.err, value |-> "none"]]_vars

\* A successful create: the new Record carries the id the service assigned and
\* the fields it stored.
C7_Witness ==
    /\ ~call.active
    /\ resp.op = "create"
    /\ resp.err = NoErr
    /\ result.value = "record"
    /\ rec.id = "rec2"
    /\ rec.fields["b"] = "y"
    /\ server["rec2"] = Stored(rec.fields)


(***************************************************************************)
(* Properties of the dispatcher's rate-limit retries                       *)
(***************************************************************************)

\* Managed retry is on: neither the client's options nor the process-wide
\* settings it was constructed under set noRetryIfRateLimited.
RetryEnabled ==
    /\ ~Truthy(ctor.opts.noRetryIfRateLimited)
    /\ ~Truthy(ctor.statics.noRetryIfRateLimited)

\* The request timeout the client was configured with.
ConfiguredTimeout ==
    IF ctor.opts.requestTimeout # 0 THEN ctor.opts.requestTimeout
    ELSE DefaultRequestTimeout

StatusAt(i) == disp.received[i].status
LastStatus == StatusAt(Len(disp.received))

\* The same method, path and query in every request of the action.
SameTarget ==
    \A i \in 1..Len(disp.sent) :
        /\ disp.sent[i].method = disp.desc.method
        /\ disp.sent[i].path = disp.desc.path
        /\ disp.sent[i].query = disp.desc.query

\* A 429 is not handed to the caller but retried, and when a 200 follows the
\* 429s the callback is called once, with no error and the 200's body.
RetryInvisible ==
    /\ (LastStatus = 429 /\ ~disp.expired)
         => /\ disp.callbacks = <<>>
            /\ disp.phase \in {"backoff", "sent"}
    /\ (LastStatus = 200)
         => /\ \A i \in 1..(Len(disp.received) - 1) : StatusAt(i) = 429
            /\ disp.phase = "done"
            /\ disp.callbacks =
                 <<[err |-> NoErr, body |-> disp.received[Len(disp.received)].body]>>

C9_NoRetryWhenDisabled ==
    (~RetryEnabled /\ Len(disp.received) > 0 /\ StatusAt(1) = 429 =>
         /\ disp.phase = "done"
         /\ disp.callbacks = <<[err |-> RateLimitError, body |-> NullJson]>>
         /\ Len(disp.sent) = 1
         /\ Len(disp.received) = 1)

\* A client constructed with noRetryIfRateLimited: true whose action was
\* answered 429.
C9_Witness ==
    /\ ctor.opts.noRetryIfRateLimited = "true"
    /\ disp.phase = "done"
    /\ Len(disp.received) = 1
    /\ StatusAt(1) = 429
    /\ Len(disp.callbacks) = 1
    /\ disp.callbacks[1].err = RateLimitError

\* C10: the attempts and waits of one action never take longer than the
\* configured request timeout; when the time runs out the action is over with
\* exactly one error callback; a finished action issues no further request;
\* and every action that was started finishes.
C10_RetriesBoundedByTimeout ==
    /\ [](disp.elapsed + disp.wait <= ConfiguredTimeout)
    /\ [](disp.expired =>
            /\ disp.phase = "done"
            /\ Len(disp.callbacks) = 1
            /\ disp.callbacks[1].err \in {RateLimitError, TimeoutError})
    /\ [][(disp.phase = "done" /\ disp' # disp)
            => \/ disp' = Idle
               \/ /\ disp'.phase = "sent"
                  /\ Len(disp'.sent) = 1
                  /\ disp'.received = <<>>
                  /\ disp'.callbacks = <<>>
                  /\ disp'.elapsed = 0]_vars
    /\ (disp.phase \in {"sent", "backoff"}) ~> (disp.phase = "done")

\* An action under a short timeout that was retried after a 429 and then ran
\* out of time on the next 429.
C10_Witness ==
    /\ ctor.opts.requestTimeout = ShortTimeout
    /\ disp.expired
    /\ disp.phase = "done"
    /\ Len(disp.sent) >= 2
    /\ LastStatus = 429
    /\ disp.callbacks[1].err = RateLimitError

(***************************************************************************)
(* Properties of list and forEach                                          *)
(***************************************************************************)

Traversing == pg.mode = "forEach"

\* The positions in the log of the events of one kind.
At(kind) == {p \in DOMAIN pg.events : pg.events[p].kind = kind}
Requests == At("request")
Responses == At("response")
Deliveries == At("record")
Dones == At("done")

\* The last event of the log.
LastEvent == pg.events[Len(pg.events)]

\* The position of the last request before position p.
RequestBefore(p) ==
    CHOOSE q \in Requests : q < p /\ \A r \in Requests : r < p => r <= q

\* The position of the last response before position p, 0 if there is none.
ResponseBefore(p) ==
    IF \E q \in Responses : q < p
    THEN CHOOSE q \in Responses : q < p /\ \A r \in Responses : r < p => r <= q
    ELSE 0

\* The ids of the records of the page a request for the given offset gets.
PageIds(offset) ==
    LET k == IF offset = NoOffset THEN 1 ELSE offset
    IN  {pages[k][i] : i \in 1..Len(pages[k])}

\* The ids the record callback was invoked with, in order.
DeliveredIds ==
    LET ds == {p \in Deliveries : TRUE}
        nth[n \in 0..Len(pg.events)] ==
            IF n = 0 THEN <<>>
            ELSE IF n \in ds THEN Append(nth[n - 1], pg.events[n].id) ELSE nth[n - 1]
    IN  nth[Len(pg.events)]

\* C11: a traversal fetches its pages strictly one after another: at most one
\* list request is awaited at any time, between two requests lies the
\* response to the first, every record callback invocation is for a record of
\* the page requested last and comes after that page's response (so the next
\* page is requested only after the callbacks of this one), and no page is
\* requested twice.
C11_PagesFetchedSequentially ==
    Traversing =>
        /\ Len(pg.inflight) <= 1
        /\ \A p, q \in Requests :
              p < q => \E r \in Responses : p < r /\ r < q
        /\ \A d \in Deliveries :
              /\ RequestBefore(d) < ResponseBefore(d)
              /\ pg.events[d].id \in PageIds(pg.events[RequestBefore(d)].offset)
        /\ \A p, q \in Requests :
              p # q => pg.events[p].offset # pg.events[q].offset

\* A finished traversal of three pages, records of two of them delivered.
C11_Witness ==
    /\ Traversing
    /\ Cardinality(Requests) = 3
    /\ Cardinality(Responses) = 3
    /\ \E d, e \in Deliveries :
          RequestBefore(d) # RequestBefore(e)
    /\ LastEvent = DoneEv(NoErr)

\* The first event after position p, as a kind; "none" at the end of the log.
KindAfterDeliveries(p) ==
    LET later == {q \in DOMAIN pg.events : q > p /\ pg.events[q].kind # "record"}
    IN  IF later = {} THEN "none"
        ELSE pg.events[CHOOSE q \in later : \A r \in later : q <= r].kind

\* What a traversal's log shows about when it goes on and when it ends.
GoesOnExactlyWithOffset ==
    Traversing =>
        /\ \A r \in Responses :
              pg.events[r].err = NoErr =>
                  IF pg.events[r].offset # NoOffset
                  THEN KindAfterDeliveries(r) = "request"
                  ELSE /\ KindAfterDeliveries(r) = "done"
                       /\ LastEvent = DoneEv(NoErr)
                       /\ \A q \in Requests : q < r
        /\ \A q \in Requests :
              q > 1 => /\ ResponseBefore(q) > 0
                       /\ pg.events[ResponseBefore(q)].err = NoErr
                       /\ pg.events[ResponseBefore(q)].offset # NoOffset
        /\ Cardinality(Dones) <= 1
        /\ (Dones # {} => pg.inflight = <<>>)

\* C12: a traversal requests a further page exactly when the last response
\* carried an offset; when the response carries none it ends with one done()
\* without error and no further request; and, every request being answered,
\* a traversal under way ends: without error if the page without offset came.
C12_TraversalTerminates ==
    /\ []GoesOnExactlyWithOffset
    /\ (Traversing /\ pg.inflight # <<>>)
          ~> (/\ Traversing
              /\ pg.inflight = <<>>
              /\ Cardinality(Dones) = 1
              /\ (pg.events[ResponseBefore(Len(pg.events))].err = NoErr
                    => LastEvent = DoneEv(NoErr)))

\* A traversal that went on after a response with an offset and ended
\* without error on the response without one.
C12_Witness ==
    /\ Traversing
    /\ Cardinality(Requests) = 2
    /\ \E r \in Responses : pg.events[r].offset # NoOffset
    /\ pg.events[ResponseBefore(Len(pg.events))].offset = NoOffset
    /\ LastEvent = DoneEv(NoErr)
    /\ pg.inflight = <<>>

\* A step in which an awaited request of the traversal is answered.
TraversalAnswered ==
    /\ Traversing
    /\ pg'.mode = "forEach"
    /\ pg.inflight # <<>>
    /\ Len(pg'.events) > Len(pg.events)
    /\ pg'.events[Len(pg.events) + 1].kind = "response"

FailedResponses == {r \in Responses : pg.events[r].err # NoErr}

\* C13: a dispatcher failure on any page ends the traversal: the error is
\* handed to the completion callback, once, as the last thing the traversal
\* does (no further request, no further record callback), and the step that
\* reports it leaves everything delivered before as it was.
C13_FailureEndsTraversal ==
    /\ [](Traversing =>
            \A r \in FailedResponses :
                /\ r + 1 = Len(pg.events)
                /\ pg.events[r + 1] = DoneEv(pg.events[r].err)
                /\ Cardinality(Dones) = 1
                /\ pg.inflight = <<>>)
    /\ [][TraversalAnswered =>
            /\ SubSeq(pg'.events, 1, Len(pg.events)) = pg.events
            /\ (pg'.events[Len(pg.events) + 1].err # NoErr =>
                    /\ Len(pg'.events) = Len(pg.events) + 2
                    /\ pg'.inflight = <<>>)]_vars

\* A traversal that delivered the records of its first page and failed on
\* the second.
C13_Witness ==
    /\ Traversing
    /\ Cardinality(Requests) = 2
    /\ Cardinality(Deliveries) = MaxPageSize
    /\ LastEvent = DoneEv("SERVER_ERROR")
    /\ \A d \in Deliveries : d < Len(pg.events) - 1

\* The ids of the records that n single-page fetches return, the first
\* issued with the given offset and each next one with the offset the server
\* returned, concatenated.
RECURSIVE SinglePageFetches(_, _)
SinglePageFetches(offset, n) ==
    IF n = 0 THEN <<>>
    ELSE LET got == listCallback(NoErr, ListReply(pages, _listRecords(RecordsPerPageForIteration, offset, NoListOpts).query))
         IN  [i \in 1..Len(got.records) |-> got.records[i].id]
                \o (IF got.offset = NoOffset THEN <<>>
                    ELSE SinglePageFetches(got.offset, n - 1))

SuccessfulResponses == {r \in Responses : pg.events[r].err = NoErr}

\* C14: at any point of a traversal the record callback has been invoked
\* with exactly the records of the pages answered so far, in page-then-
\* within-page order, as single-page fetches with the server's offsets
\* return them: none dropped, duplicated or reordered.
C14_TraversalDeliversEveryRecord ==
    Traversing =>
        DeliveredIds = SinglePageFetches(NoOffset, Cardinality(SuccessfulResponses))

\* The same for a record callback that never returns false.
TraversalDeliversEveryRecordUnlessStopped ==
    (Traversing /\ cb # "false") =>
        DeliveredIds = SinglePageFetches(NoOffset, Cardinality(SuccessfulResponses))

Listing == pg.mode = "list"

\* The query parameters of the list call made: its limit, its offset and
\* its extra options.
ListQuery == [limit |-> pg.limit, offset |-> pg.offset, view |-> pg.opts.view]

\* C15: a list call issues one request, a get on the table's path whose
\* query carries the call's limit, offset and extra options; answered
\* without error it hands its callback, once, one Record per entry of the
\* response's records, in the server's order and with the entry's id and
\* fields, and the response's offset (none when the response has none).
C15_ListPageReturnsServerPage ==
    Listing =>
        /\ Cardinality(Requests) = 1
        /\ pg.events[1] = Ev("request", pg.offset, NoId, NoErr)
        /\ pg.out.called + Len(pg.inflight) = 1
        /\ \A j \in DOMAIN pg.inflight :
              pg.inflight[j] = [method |-> "get", path |-> TablePath,
                                query |-> ListQuery, body |-> NullBody]
        /\ (pg.out.called = 1 /\ pg.out.err = NoErr) =>
              LET results == ListReply(pages, ListQuery)
              IN  /\ Len(pg.out.records) = Len(results.records)
                  /\ \A i \in DOMAIN results.records :
                        /\ pg.out.records[i].id = results.records[i].id
                        /\ pg.out.records[i].fields = results.records[i].fields
                  /\ pg.out.offset = results.offset

\* A list call for the second page of a view, answered with a full page and
\* the offset of a third.
C15_Witness ==
    /\ Listing
    /\ pg.offset # NoOffset
    /\ pg.opts.view = "grid"
    /\ pg.out.called = 1
    /\ pg.out.err = NoErr
    /\ Len(pg.out.records) = MaxPageSize
    /\ pg.out.records[1].id # pg.out.records[2].id
    /\ pg.out.offset # NoOffset

\* C19: in a traversal only the first request has its offset unset; every
\* later request carries the offset of the response just before it, which
\* answered the request before; and no request follows a response without
\* offset: the traversal never starts over.
C19_OffsetThreadedThroughRequests ==
    Traversing =>
        /\ pg.events[1] = Ev("request", NoOffset, NoId, NoErr)
        /\ \A q \in Requests :
              q > 1 =>
                  /\ pg.events[q].offset # NoOffset
                  /\ ResponseBefore(q) > RequestBefore(q)
                  /\ pg.events[q].offset = pg.events[ResponseBefore(q)].offset
        /\ \A r \in Responses :
              pg.events[r].offset = NoOffset => \A q \in Requests : q < r

\* A traversal whose second and third requests carried the offsets of the
\* first and second responses, ended by the third response.
C19_Witness ==
    /\ Traversing
    /\ Cardinality(Requests) = 3
    /\ \E q \in Requests : pg.events[q].offset = 2
    /\ \E q \in Requests : pg.events[q].offset = 3
    /\ pg.events[ResponseBefore(Len(pg.events))].offset = NoOffset
    /\ pg.inflight = <<>>

(***************************************************************************)
(* Properties of the client configuration                                  *)
(***************************************************************************)

\* The value of the highest-precedence source that supplies one.
FirstSupplied(perClient, processWide, builtIn) ==
    IF perClient # Undefined THEN perClient
    ELSE IF processWide # Undefined THEN processWide
    ELSE builtIn

\* C17: every setting of a client is the value its constructor options
\* supply, else the value Airtable.configure supplied, else the built-in
\* default; a supplied false counts as supplied.  (Airtable.configure keeps
\* no request timeout.)
C17_SettingsResolvedByPrecedence ==
    /\ client.apiKey =
          FirstSupplied(ctor.opts.apiKey, ctor.statics.apiKey, default_config.apiKey)
    /\ client.endpointUrl =
          FirstSupplied(ctor.opts.endpointUrl, ctor.statics.endpointUrl,
                        default_config.endpointUrl)
    /\ client.apiVersion =
          FirstSupplied(ctor.opts.apiVersion, ctor.statics.apiVersion,
                        default_config.apiVersion)
    /\ client.allowUnauthorizedSsl =
          FirstSupplied(ctor.opts.allowUnauthorizedSsl, ctor.statics.allowUnauthorizedSsl,
                        default_config.allowUnauthorizedSsl)
    /\ client.noRetryIfRateLimited =
          FirstSupplied(ctor.opts.noRetryIfRateLimited, ctor.statics.noRetryIfRateLimited,
                        default_config.noRetryIfRateLimited)
    /\ client.requestTimeout =
          (IF ctor.opts.requestTimeout # 0 THEN ctor.opts.requestTimeout
           ELSE default_config.requestTimeout)

(***************************************************************************)
(* Properties of the Record operations as dispatcher calls                 *)
(***************************************************************************)

MethodOf(op) ==
    CASE op = "fetch" -> "get"
      [] op = "patchUpdate" -> "patch"
      [] op = "putUpdate" -> "put"
      [] op = "destroy" -> "delete"

\* An invocation is one dispatcher call: the action issued has the
\* operation's method and the path of the record's own id, and it is the
\* action awaited until it is answered (a body that is the Record's own
\* fields object reads as the Record's fields do).
OneCallPerInvocation ==
    /\ (IssueStep /\ call'.op \in RecordOps)
          => /\ call'.method = MethodOf(call'.op)
             /\ call'.path = RecordPath(rec'.id)
    /\ (call.active /\ call'.active)
          => /\ call'.op = call.op /\ call'.via = call.via
             /\ call'.method = call.method /\ call'.path = call.path
             /\ call'.query = call.query
             /\ call'.body.typecast = call.body.typecast
             /\ (call.shared # "yes" => call'.body = call.body)

\* C18 as stated: fetch, patchUpdate, putUpdate and destroy are one
\* dispatcher call each and, answered without error, all four have replaced
\* the snapshot by the response's when the caller is handed the record.
C18_EveryOperationRefreshes ==
    [][/\ OneCallPerInvocation
       /\ (SuccessStep /\ call.op \in RecordOps)
             => /\ rec'.rawJson = resp'.body
                /\ rec'.fields = FieldsOf(resp'.body)
                /\ result' = doneRecord]_vars

\* C18 amended: fetch, patchUpdate, putUpdate and destroy are one dispatcher
\* call each; answered without error, fetch, patchUpdate and putUpdate have
\* replaced the snapshot by the response's when the caller is handed the
\* record, while destroy hands the record over with its snapshot as it was.
C18_RefreshExceptDestroy ==
    [][/\ OneCallPerInvocation
       /\ (SuccessStep /\ call.op \in RefreshOps)
             => /\ rec'.rawJson = resp'.body
                /\ rec'.fields = FieldsOf(resp'.body)
                /\ result' = doneRecord
       /\ (SuccessStep /\ call.op = "destroy")
             => /\ rec' = rec
                /\ result' = doneRecord]_vars

\* A destroy answered without error: the caller holds the record with the
\* fields it had, which are not those of the response.
C18_Witness ==
    /\ ~call.active
    /\ resp.op = "destroy"
    /\ resp.via = "record"
    /\ resp.err = NoErr
    /\ result = doneRecord
    /\ rec.fields # EmptyFields
    /\ rec.fields # FieldsOf(resp.body)

(***************************************************************************)
(* Properties of operations awaited at the same time                       *)
(***************************************************************************)

ConcIssued(i) == ~conc[i].call.active /\ conc'[i].call.active
ConcCompleted(i) == conc[i].call.active /\ ~conc'[i].call.active

\* C20: operations on distinct Record objects, the caller's own or those the
\* Table gateway builds, do not meet: issuing one touches no other Record
\* and addresses the Record's own id; and in whatever order the answers
\* come, an answer leaves every other Record, call and result as they were,
\* keeps the id, and gives the operation's Record and result what its own
\* response says.
C20_OperationsIndependent ==
    [][\A i \in Slots :
          /\ ConcIssued(i) =>
                /\ \A j \in Slots \ {i} : conc'[j] = conc[j]
                /\ conc'[i].call.path = RecordPath(conc'[i].rec.id)
          /\ ConcCompleted(i) =>
                /\ \A j \in Slots \ {i} : conc'[j] = conc[j]
                /\ conc'[i].rec.id = conc[i].rec.id
                /\ conc'[i].rec.fields =
                      (IF conc'[i].resp.err = NoErr /\ conc[i].call.op \in RefreshOps
                       THEN FieldsOf(conc'[i].resp.body)
                       ELSE conc[i].rec.fields)
                /\ conc'[i].result =
                      (IF conc'[i].resp.err = NoErr THEN doneRecord
                       ELSE doneErr(conc'[i].resp.err))]_vars

\* A Table.update answered while a patchUpdate on another Record was still
\* awaited, both answered since, with different fields.
C20_Witness ==
    /\ conc["second"].during
    /\ conc["second"].resp.op = "patchUpdate"
    /\ conc["second"].resp.via = "table"
    /\ conc["second"].resp.err = NoErr
    /\ conc["first"].resp.op = "patchUpdate"
    /\ conc["first"].resp.via = "record"
    /\ conc["first"].resp.err = NoErr
    /\ conc["first"].result = doneRecord
    /\ conc["first"].rec.id = conc["second"].rec.id
    /\ conc["first"].rec.fields # conc["second"].rec.fields
    /\ conc["first"].rec.fields # EmptyFields
    /\ conc["second"].rec.fields # EmptyFields

(***************************************************************************)
(* Properties of the completion callbacks                                  *)
(***************************************************************************)

CallbackOps == RecordOps \cup {"create"}

\* The completion callback of a Record operation or a create, as the state
\* shows it: not called while the call is awaited, and called with an error
\* or with the record, not both.
RecordCallbackOnce ==
    /\ call.active => ~result.called
    /\ result.called => (result.err # NoErr) # (result.value # "none")

\* The completion callback of a list call or a traversal, as the log shows
\* it: not called while a request is awaited, called once when none is, with
\* the error of the last response or without error; a list call hands over
\* either the error or the page.
PagerCallbackOnce ==
    (Listing \/ Traversing) =>
        /\ Cardinality(Dones) = (IF pg.inflight = <<>> THEN 1 ELSE 0)
        /\ \A d \in Dones :
              /\ d = Len(pg.events)
              /\ pg.events[d].err = pg.events[ResponseBefore(d)].err
        /\ Listing =>
              /\ pg.out.called = Cardinality(Dones)
              /\ pg.out.called = 1 => pg.out.err = LastEvent.err
              /\ pg.out.err # NoErr => (pg.out.records = <<>> /\ pg.out.offset = NoOffset)

\* C21: fetch, patchUpdate, putUpdate, destroy, create, a list call and a
\* whole traversal call their completion callback exactly once per
\* invocation: in the step that answers the call (for a traversal, the last
\* answer), with the dispatcher's error and nothing else, or without error
\* and with the result; no other step calls it.
C21_CompletionCallbackOnce ==
    /\ [](RecordCallbackOnce /\ PagerCallbackOnce)
    /\ [][/\ (Completed /\ call.op \in CallbackOps) =>
                result' = (IF resp'.err # NoErr THEN doneErr(resp'.err) ELSE doneRecord)
          /\ result' # result =>
                \/ Completed
                \/ IssueStep /\ result' = NoResult]_vars

\* A create answered with an error and a traversal ended by an error on its
\* second page: each reported once, to its own callback.
C21_Witness ==
    /\ resp.op = "create"
    /\ resp.err = "SERVER_ERROR"
    /\ result = doneErr("SERVER_ERROR")
    /\ Traversing
    /\ Cardinality(Requests) = 2
    /\ Cardinality(Dones) = 1
    /\ LastEvent = DoneEv("NOT_FOUND")

====
